---- MODULE Spec2Model ----
(***************************************************************************)
(* A model of the WebUI-API accessor library: the chunked file stream of   *)
(* SuFile.fetch, the Config store over FileSystem, and the guarded         *)
(* accessor methods of FileSystem, Toast, MMRLInterface and SuFile.        *)
(*                                                                         *)
(* Three specifications share the module's variables; each moves only its  *)
(* own component and leaves the others at their initial values:            *)
(*   SpecFetch     one call of SuFile.fetch and the life of its stream     *)
(*   SpecConfig    construction of a Config and its get/set calls          *)
(*   SpecAccessor  single calls of the guarded accessor methods            *)
(***************************************************************************)
EXTENDS Integers, Sequences, FiniteSets, TLC

\* ------------------------------------------------------------------------
\* Bounds of the model
\* ------------------------------------------------------------------------

\* Longest file read through SuFile.fetch, in bytes.
MaxLen == 3

\* Largest chunk size passed to SuFile.fetch.
MaxChunk == 2

\* Number of Config.set calls followed on one instance.
MaxSets == 2

\* Longest scope string given to AccessorScope, in characters.
MaxScopeLen == 3

\* ------------------------------------------------------------------------
\* Variables
\* ------------------------------------------------------------------------

VARIABLES
    \* --- SuFile.fetch -----------------------------------------------
    fileBytes,      \* the bytes of the file behind the host handle
    chunkSize,      \* mergedOptions.chunkSize
    openOutcome,    \* what new SuFileInputStream(path) meets on the host
    signal,         \* mergedOptions.signal: "none", "idle" or "aborted"
    listener,       \* abortHandler is registered on the signal
    handlePos,      \* read position of the host handle
    closeCalls,     \* close() calls received by the host handle
    readChunkCalls, \* readChunk() calls received by the host handle
    stream,         \* the ReadableStream: "none", "readable", "closed", "errored"
    queue,          \* chunks enqueued and not yet read by the consumer
    enqueued,       \* every chunk ever enqueued, in order
    promise,        \* the promise returned by fetch
    events,         \* what has happened to the stream so far
    lastNew,        \* the last construction of a SuFile or SuFileInputStream
    \* --- Config over FileSystem ---------------------------------------
    cfgEnv,         \* the host seen by the Config's FileSystem
    diskFile,       \* content of <scope>/config.json on the host, or NoFile
    diskDir,        \* /data/adb/.config/<scope> exists on the host
    cfgPhase,       \* "new", "ready" (constructed) or "threw"
    config,         \* Config.config, the in-memory document
    loaded,         \* the document as the constructor loaded it
    cfgTrace,       \* the host calls and results of the last Config operation
    lastSet,        \* per key path: the value last set and still standing
    setCount,       \* Config.set calls so far
    otherCfg,       \* a second Config instance of the same scope
    lastSetter,     \* the instance that made the most recent set
    \* --- single accessor calls --------------------------------------
    accEnv,         \* the host seen by the accessor
    toastDuration,  \* Toast.duration
    lastCall,       \* the last accessor call and everything it did
    \* --- AccessorScope -------------------------------------------------
    scope,          \* the scope string given by the caller
    sanitized,      \* the results of sanitizeScope applied to it, in turn
    globals,        \* the names of the globals the host has defined on window
    scopeCall,      \* the last AccessorScope call, its lookups and its result
    \* --- NativeProperty ------------------------------------------------
    propEnv,        \* the window the decorated class lives in
    propOptions,    \* the options the property was decorated with
    storedValue,    \* what the decorator's accessor pair holds
    propCall        \* the last read or write of the property

fetchVars == <<fileBytes, chunkSize, openOutcome, signal, listener, handlePos,
               closeCalls, readChunkCalls, stream, queue, enqueued, promise,
               events, lastNew>>

cfgVars == <<cfgEnv, diskFile, diskDir, cfgPhase, config, loaded, cfgTrace,
             lastSet, setCount, otherCfg, lastSetter>>

accVars == <<accEnv, toastDuration, lastCall>>

scopeVars == <<scope, sanitized, globals, scopeCall>>

propVars == <<propEnv, propOptions, storedValue, propCall>>

vars == <<fetchVars, cfgVars, accVars, scopeVars, propVars>>

\* ------------------------------------------------------------------------
\* Helpers
\* ------------------------------------------------------------------------

Min(a, b) == IF a < b THEN a ELSE b

\* Byte values a file is made of.
Bytes == {0, 255}

SeqsUpTo(S, n) == UNION {[1..k -> S] : k \in 0..n}

\* ========================================================================
\* SuFile.fetch: the chunked stream over a host input-stream handle
\* ========================================================================

\* The host's text for one byte of a chunk.
ByteText(b) == CASE b = 0 -> "0" [] b = 255 -> "255" [] OTHER -> "?"

\* The number a token of a chunk text denotes, or -1 when it is no number.
NumberOf(tok) == CASE tok = "0" -> 0 [] tok = "255" -> 255 [] OTHER -> -1

RECURSIVE JoinBytes(_)
JoinBytes(s) ==
    IF s = <<>> THEN <<>>
    ELSE IF Len(s) = 1 THEN <<ByteText(s[1])>>
    ELSE <<ByteText(s[1]), ",">> \o JoinBytes(Tail(s))

\* The host's readChunk result: "a JSON string representation of the byte
\* array", here the sequence of its tokens.
HostChunkJSON(s) == <<"[">> \o JoinBytes(s) \o <<"]">>

ParseFail == [ok |-> FALSE, value |-> <<>>]

RECURSIVE ParseItems(_)
ParseItems(toks) ==
    IF toks = <<>> THEN ParseFail
    ELSE IF NumberOf(toks[1]) < 0 THEN ParseFail
    ELSE IF Len(toks) = 1 THEN [ok |-> TRUE, value |-> <<NumberOf(toks[1])>>]
    ELSE IF toks[2] # "," THEN ParseFail
    ELSE LET rest == ParseItems(SubSeq(toks, 3, Len(toks)))
         IN  IF rest.ok
             THEN [ok |-> TRUE, value |-> <<NumberOf(toks[1])>> \o rest.value]
             ELSE ParseFail

\* JSON.parse(chunkData) of a chunk text: the array, or a SyntaxError.
JSONParse(text) ==
    IF Len(text) < 2 \/ text[1] # "[" \/ text[Len(text)] # "]" THEN ParseFail
    ELSE IF Len(text) = 2 THEN [ok |-> TRUE, value |-> <<>>]
    ELSE ParseItems(SubSeq(text, 2, Len(text) - 1))

\* new Uint8Array(chunk): every element is taken modulo 2^8.
Uint8Array(chunk) == [i \in 1..Len(chunk) |-> chunk[i] % 256]

\* What the host handle may answer to readChunk(chunkSize): the text of the
\* next chunkSize bytes; at the end of the file null or an empty array; an
\* I/O error or a cut-off text at any time.  A handle that was closed
\* answers null or throws.  newPos is the handle's position afterwards.
HostReadChunk ==
    LET n    == Len(fileBytes)
        upto == Min(handlePos + chunkSize, n)
        bad  == {[kind |-> "throw", text |-> <<>>, newPos |-> handlePos],
                 [kind |-> "data", text |-> <<"[", "0", ",">>, newPos |-> handlePos]}
    IN  IF closeCalls > 0
        THEN {[kind |-> "throw", text |-> <<>>, newPos |-> handlePos],
              [kind |-> "null", text |-> <<>>, newPos |-> handlePos]}
        ELSE IF handlePos < n
        THEN {[kind |-> "data",
               text |-> HostChunkJSON(SubSeq(fileBytes, handlePos + 1, upto)),
               newPos |-> upto]} \cup bad
        ELSE {[kind |-> "null", text |-> <<>>, newPos |-> handlePos],
              [kind |-> "data", text |-> HostChunkJSON(<<>>), newPos |-> handlePos]}
             \cup bad

\* reject(...) settles the promise only while it is still pending.
Reject(p, why) == IF p \in {"none", "pending"} THEN why ELSE p

cleanupKeepsListener ==
    /\ listener' = listener
    /\ closeCalls' = closeCalls + 1

\* function cleanup(): remove the abort listener, close the handle.
cleanup ==
    /\ listener' = FALSE
    /\ closeCalls' = closeCalls + 1

abortHandlerNoClose(p) ==
    /\ closeCalls' = closeCalls
    /\ promise' = Reject(p, "rejectedAbort")
    /\ events' = events \cup {"abort"}

\* const abortHandler: close the handle, reject the promise.  The listener
\* stays registered and the stream is left as it is.
abortHandler(p) ==
    /\ closeCalls' = closeCalls + 1
    /\ promise' = Reject(p, "rejectedAbort")
    /\ events' = events \cup {"abort"}

\* if (!chunkData): null and the empty string end the stream.
NoChunkData(out) == out.kind = "null" \/ out.text = <<>>

PullEnqueuesShort(chunk) == Len(chunk) > 1

\* if (chunk && chunk.length > 0)
PullEnqueues(chunk) == Len(chunk) > 0

\* What the host offers a constructor: "ok", "nointerface" when no global
\* matches /^\$(\w{2})FileInputStream$/, "null" when the global is there and
\* its open(path) returns nothing.
HostStates == {"ok", "nointerface", "null"}

\* What a construction came to: whether an exception left the constructor,
\* its type, and the open(path) calls made on the host.
Built(threw, error, opens) == [threw |-> threw, error |-> error, opens |-> opens]

NewSuFileInputStreamUnchecked(host) ==
    IF host = "nointerface" THEN Built(TRUE, "ReferenceError", 0)
    ELSE Built(FALSE, "none", 1)

\* new SuFileInputStream(path): find the interface, open the path.
NewSuFileInputStream(host) ==
    IF host = "nointerface" THEN Built(TRUE, "ReferenceError", 0)
    ELSE IF host = "null" THEN Built(TRUE, "Error", 1)
    ELSE Built(FALSE, "none", 1)

\* new SuFile(path): find the interface; nothing is opened.
NewSuFile(host) ==
    IF host = "nointerface" THEN Built(TRUE, "ReferenceError", 0)
    ELSE Built(FALSE, "none", 0)

\* A construction as its caller sees it: where it was made, what the host
\* offered, whether the exception reached the caller and whether it was
\* caught on the way.
Construction(cls, site, host, built, caught) ==
    [cls |-> cls, site |-> site, host |-> host, error |-> built.error,
     raised |-> built.threw /\ ~caught, caught |-> built.threw /\ caught]

NoConstruction ==
    [cls |-> "none", site |-> "none", host |-> "ok", error |-> "none",
     raised |-> FALSE, caught |-> FALSE]

\* The executor of the promise fetch returns.  The construction of the
\* input stream stands in a try whose catch rejects the promise.
Fetch ==
    /\ promise = "none"
    /\ lastNew' = Construction("SuFileInputStream", "fetch", openOutcome,
                               NewSuFileInputStream(openOutcome), TRUE)
    /\ IF NewSuFileInputStream(openOutcome).threw
       THEN /\ promise' = "rejectedOpen"
            /\ UNCHANGED <<listener, closeCalls, stream, events>>
       ELSE IF signal = "aborted"
       THEN /\ abortHandler("pending")
            /\ UNCHANGED <<listener, stream>>
       ELSE /\ listener' = (signal # "none")
            /\ stream' = "readable"
            /\ promise' = "resolved"
            /\ UNCHANGED <<closeCalls, events>>
    /\ UNCHANGED <<fileBytes, chunkSize, openOutcome, signal, handlePos,
                   readChunkCalls, queue, enqueued>>
    /\ UNCHANGED <<cfgVars, accVars, scopeVars, propVars>>

\* pull(controller): the stream asks for a chunk whenever its queue is below
\* the high-water mark of one chunk.
Pull ==
    /\ stream = "readable"
    /\ queue = <<>>
    /\ \E out \in HostReadChunk :
        LET parsed == IF out.kind = "data" THEN JSONParse(out.text) ELSE ParseFail
        IN  /\ readChunkCalls' = readChunkCalls + 1
            /\ handlePos' = out.newPos
            /\ IF out.kind = "throw" \/ (~NoChunkData(out) /\ ~parsed.ok)
               THEN /\ cleanup
                    /\ stream' = "errored"
                    /\ promise' = Reject(promise, "rejectedRead")
                    /\ events' = events \cup {"error"}
                    /\ UNCHANGED <<queue, enqueued>>
               ELSE IF NoChunkData(out) \/ ~PullEnqueues(parsed.value)
               THEN /\ stream' = "closed"
                    /\ cleanup
                    /\ events' = events \cup {"eof"}
                    /\ UNCHANGED <<queue, enqueued, promise>>
               ELSE /\ queue' = Append(queue, Uint8Array(parsed.value))
                    /\ enqueued' = Append(enqueued, Uint8Array(parsed.value))
                    /\ UNCHANGED <<listener, closeCalls, stream, promise, events>>
    /\ UNCHANGED <<fileBytes, chunkSize, openOutcome, signal, lastNew>>
    /\ UNCHANGED <<cfgVars, accVars, scopeVars, propVars>>

\* The consumer of the Response body takes the next chunk.
Read ==
    /\ queue # <<>>
    /\ queue' = Tail(queue)
    /\ UNCHANGED <<fileBytes, chunkSize, openOutcome, signal, listener,
                   handlePos, closeCalls, readChunkCalls, stream, enqueued,
                   promise, events, lastNew>>
    /\ UNCHANGED <<cfgVars, accVars, scopeVars, propVars>>

\* cancel(): the consumer cancels a stream that is still readable.
Cancel ==
    /\ stream = "readable"
    /\ stream' = "closed"
    /\ queue' = <<>>
    /\ cleanup
    /\ events' = events \cup {"cancel"}
    /\ UNCHANGED <<fileBytes, chunkSize, openOutcome, signal, handlePos,
                   readChunkCalls, enqueued, promise, lastNew>>
    /\ UNCHANGED <<cfgVars, accVars, scopeVars, propVars>>

\* The signal fires after fetch was called; abortHandler runs when it is
\* still registered.
Abort ==
    /\ promise # "none"
    /\ signal = "idle"
    /\ signal' = "aborted"
    /\ IF listener
       THEN abortHandler(promise)
       ELSE UNCHANGED <<closeCalls, promise, events>>
    /\ UNCHANGED <<fileBytes, chunkSize, openOutcome, listener, handlePos,
                   readChunkCalls, stream, queue, enqueued, lastNew>>
    /\ UNCHANGED <<cfgVars, accVars, scopeVars, propVars>>

\* new SuFile(path) or new SuFileInputStream(path), called directly.  A
\* stream opened this way is the caller's own and not the one fetch reads.
New ==
    /\ \E cls \in {"SuFile", "SuFileInputStream"} :
         lastNew' = Construction(cls, "direct", openOutcome,
                                 IF cls = "SuFile" THEN NewSuFile(openOutcome)
                                 ELSE NewSuFileInputStream(openOutcome), FALSE)
    /\ UNCHANGED <<fileBytes, chunkSize, openOutcome, signal, listener,
                   handlePos, closeCalls, readChunkCalls, stream, queue,
                   enqueued, promise, events>>
    /\ UNCHANGED <<cfgVars, accVars, scopeVars, propVars>>

FetchIdle ==
    /\ fileBytes = <<>>
    /\ chunkSize = 1
    /\ openOutcome = "ok"
    /\ signal = "none"
    /\ listener = FALSE
    /\ handlePos = 0
    /\ closeCalls = 0
    /\ readChunkCalls = 0
    /\ stream = "none"
    /\ queue = <<>>
    /\ enqueued = <<>>
    /\ promise = "none"
    /\ events = {}
    /\ lastNew = NoConstruction

InitFetch ==
    /\ fileBytes \in SeqsUpTo(Bytes, MaxLen)
    /\ chunkSize \in 1..MaxChunk
    /\ openOutcome \in HostStates
    /\ signal \in {"none", "idle", "aborted"}
    /\ listener = FALSE
    /\ handlePos = 0
    /\ closeCalls = 0
    /\ readChunkCalls = 0
    /\ stream = "none"
    /\ queue = <<>>
    /\ enqueued = <<>>
    /\ promise = "none"
    /\ events = {}
    /\ lastNew = NoConstruction

NextFetch ==
    \/ Fetch
    \/ Pull
    \/ Read
    \/ Cancel
    \/ Abort
    \/ New


\* ========================================================================
\* Guarded accessor methods: FileSystem, Toast, MMRLInterface, SuFile
\* ========================================================================

\* A JavaScript value passed between an accessor and the host is a sequence
\* of tokens: a string is the sequence of its pieces; null, undefined, the
\* booleans and the numbers are the one-token sequences below (no string
\* starts with "#").
Null == <<"#null">>

Undefined == <<"#undefined">>

True == <<"#true">>

False == <<"#false">>

Zero == <<"#0">>

Seven == <<"#7">>

MinusOne == <<"#-1">>

\* typeof of a value.
TypeOf(v) ==
    CASE v \in {Zero, Seven, MinusOne} -> "number"
      [] v \in {True, False} -> "boolean"
      [] v = Undefined -> "undefined"
      [] v = Null -> "object"
      [] OTHER -> "string"

\* The value of a number the accessors hold as a constant.
NumberValue(n) ==
    CASE n = 0 -> Zero
      [] n = 7 -> Seven
      [] n = -1 -> MinusOne
      [] OTHER -> Undefined

Bool(b) == IF b THEN True ELSE False

\* Whether a value counts as true in a condition.
Truthy(v) == v \notin {False, Null, Undefined, Zero, <<>>}

\* Host version codes around the three thresholds.
Versions == {33044, 33045, 33048, 33049, 33161, 33162}

\* What an accessor sees of the host: whether navigator.userAgent is the
\* host's signature, whether the object it looked up is defined, and the
\* version code the host reports.
Envs == [userAgentIsHost : BOOLEAN, present : BOOLEAN, versionCode : Versions]

\* MMRLObjectAccessor.isMMRL: the context is recognized as the host by
\* comparing the user agent with the fixed signature string.
isMMRL(env) == env.userAgentIsHost

\* MMRLObjectAccessor.hasRequiredVersion: the reported version code meets
\* the minimum.
hasRequiredVersion(env, min) == env.versionCode >= min

\* FileSystem.advancedFsOperations
advancedFsOperations == 33162

\* Toast.requireVersion
requireVersion == 33049

\* MMRLInterface.requireVersionNewAPIs
requireVersionNewAPIs == 33045

\* Toast.LENGTH_SHORT
LENGTH_SHORT == 0

\* Toast.LENGTH_LONG
LENGTH_LONG == 1

\* What a method call came to: the value returned, whether an exception
\* reached the caller, the calls made on the host object, and the console
\* warnings and errors logged.  hostArgs holds the argument list of each
\* host call where the arguments are followed.
Outcome(ret, threw, hostCalls, warns, errors) ==
    [ret |-> ret, threw |-> threw, hostCalls |-> hostCalls, warns |-> warns,
     errors |-> errors, hostArgs |-> <<>>]

\* What the host method does when it is called.
Returns(v) == [threw |-> FALSE, value |-> v]

Throws == [threw |-> TRUE, value |-> Undefined]

\* this.interface.<method>(...): a TypeError when the looked-up object is
\* undefined, else the host method's own result or exception.
Forward(env, m, ans) ==
    IF ~env.present THEN Outcome(Undefined, TRUE, <<>>, 0, 0)
    ELSE IF ans.threw THEN Outcome(Undefined, TRUE, <<m>>, 0, 0)
    ELSE Outcome(ans.value, FALSE, <<m>>, 0, 0)

\* --- FileSystem ---------------------------------------------------------

FsBasicMethods ==
    {"read", "write", "readAsBase64", "list", "size", "stat", "delete", "exists"}

FsGatedMethods ==
    {"isDirectory", "isFile", "mkdir", "mkdirs", "createNewFile", "renameTo",
     "copyTo", "canExecute", "canRead", "isHidden"}

FsMethods == FsBasicMethods \cup FsGatedMethods

\* The value each FileSystem method returns without asking the host.
FsDefault(m) ==
    CASE m \in {"read", "readAsBase64", "list"} -> Null
      [] m = "write" -> Undefined
      [] m \in {"size", "stat"} -> Zero
      [] OTHER -> False

\* FileSystem._unsupportedWarning: one console.warn, returns false.
_unsupportedWarning == Outcome(False, FALSE, <<>>, 1, 0)

\* The paths and the data passed to FileSystem methods.
PathP == <<"/p">>

PathQ == <<"/q">>

\* The argument lists a caller passes to each FileSystem method: an
\* optional parameter is left out, passed as undefined, or given.
FsArgs(m) ==
    CASE m \in {"read", "size", "stat"} ->
            {<<PathP>>, <<PathP, Undefined>>, <<PathP, True>>, <<PathP, False>>}
      [] m = "list" -> {<<PathP>>, <<PathP, Undefined>>, <<PathP, <<";">>>>}
      [] m = "write" -> {<<PathP, <<"d">>>>}
      [] m = "renameTo" -> {<<PathP, PathQ>>}
      [] m = "copyTo" -> {<<PathP, PathQ>>, <<PathP, PathQ, True>>}
      [] OTHER -> {<<PathP>>}

\* A parameter with a default value: the default stands in when the
\* argument is left out or undefined.
ParamDefault(args, i, def) ==
    IF Len(args) < i THEN def
    ELSE IF args[i] = Undefined THEN def
    ELSE args[i]

\* The arguments each FileSystem method hands to the host method.
FsHostArgs(m, args) ==
    CASE m \in {"read", "size", "stat"} -> <<args[1], ParamDefault(args, 2, False)>>
      [] m = "list" -> <<args[1], ParamDefault(args, 2, <<",">>)>>
      [] m \in {"write", "renameTo"} -> <<args[1], args[2]>>
      [] m = "copyTo" -> <<args[1], args[2], ParamDefault(args, 3, False)>>
      [] OTHER -> <<args[1]>>

FileSystemMethodAllGated(env, m, ans) ==
    IF ~isMMRL(env) THEN Outcome(FsDefault(m), FALSE, <<>>, 0, 0)
    ELSE IF ~hasRequiredVersion(env, advancedFsOperations)
    THEN _unsupportedWarning
    ELSE IF m = "write" THEN [Forward(env, m, ans) EXCEPT !.ret = Undefined]
    ELSE Forward(env, m, ans)

FileSystemMethodUngated(env, m, ans) ==
    IF ~isMMRL(env) THEN Outcome(FsDefault(m), FALSE, <<>>, 0, 0)
    ELSE IF m = "write" THEN [Forward(env, m, ans) EXCEPT !.ret = Undefined]
    ELSE Forward(env, m, ans)

\* One FileSystem method, as its body reads: the isMMRL guard, for the
\* newer operations the version guard, then the call on this.interface.
FileSystemMethod(env, m, ans) ==
    IF ~isMMRL(env) THEN Outcome(FsDefault(m), FALSE, <<>>, 0, 0)
    ELSE IF m \in FsGatedMethods /\ ~hasRequiredVersion(env, advancedFsOperations)
    THEN _unsupportedWarning
    ELSE IF m = "write" THEN [Forward(env, m, ans) EXCEPT !.ret = Undefined]
    ELSE Forward(env, m, ans)

\* A FileSystem method called with arguments: what the method does, and
\* the arguments of the host call it makes.
FileSystemInvoke(env, m, args, ans) ==
    LET out == FileSystemMethod(env, m, ans)
    IN  [out EXCEPT !.hostArgs = IF out.hostCalls = <<>> THEN <<>>
                                 ELSE <<FsHostArgs(m, args)>>]

\* --- Toast --------------------------------------------------------------

ToastMethods == {"setText", "setDuration", "setGravity", "show", "cancel"}

\* An argument of a Toast call: its typeof and, for a number, its value.
StringArg == [type |-> "string", num |-> 0]

NumberArg(n) == [type |-> "number", num |-> n]

ToastArgs(m) ==
    CASE m = "setText" -> {<<StringArg>>, <<NumberArg(0)>>}
      [] m = "setDuration" ->
            {<<NumberArg(0)>>, <<NumberArg(1)>>, <<NumberArg(2)>>, <<StringArg>>}
      [] m = "setGravity" ->
            {<<NumberArg(0), NumberArg(0), NumberArg(0)>>,
             <<StringArg, NumberArg(0), NumberArg(0)>>,
             <<NumberArg(0), StringArg, NumberArg(0)>>,
             <<NumberArg(0), NumberArg(0), StringArg>>}
      [] OTHER -> {<<>>}

ToastArgsValidTypeOnly(m, args) ==
    CASE m = "setText" -> args[1].type = "string"
      [] m = "setDuration" -> args[1].type = "number"
      [] m = "setGravity" -> \A i \in 1..3 : args[i].type = "number"
      [] OTHER -> TRUE

\* The checks each Toast setter makes on its arguments before the call.
ToastArgsValid(m, args) ==
    CASE m = "setText" -> args[1].type = "string"
      [] m = "setDuration" ->
            /\ args[1].type = "number"
            /\ args[1].num \in {LENGTH_SHORT, LENGTH_LONG}
      [] m = "setGravity" -> \A i \in 1..3 : args[i].type = "number"
      [] OTHER -> TRUE

\* One Toast method: the isMMRL and toastBuilder guard, the version guard,
\* the argument checks, then the call on the toast builder.  The builder
\* exists when window.mmrl did at construction.
ToastMethod(env, m, args, ans) ==
    IF ~isMMRL(env) \/ ~env.present THEN Outcome(Undefined, FALSE, <<>>, 0, 0)
    ELSE IF ~hasRequiredVersion(env, requireVersion)
    THEN Outcome(Undefined, FALSE, <<>>, 0, 0)
    ELSE IF ~ToastArgsValid(m, args) THEN Outcome(Undefined, TRUE, <<>>, 0, 0)
    ELSE [Forward(env, m, ans) EXCEPT !.ret = Undefined]

\* Toast.duration after the call: setDuration stores a valid duration
\* before it calls the builder.
ToastDurationAfter(env, duration, m, args) ==
    IF /\ m = "setDuration"
       /\ isMMRL(env) /\ env.present
       /\ hasRequiredVersion(env, requireVersion)
       /\ ToastArgsValid(m, args)
    THEN args[1].num
    ELSE duration

\* --- MMRLInterface ------------------------------------------------------

MmrlGatedMethods == {"requestAdvancedKernelSUAPI", "requestFileSystemAPI"}

\* requestAdvancedKernelSUAPI / requestFileSystemAPI: the isMMRL guard, the
\* version guard, then the call; nothing is returned.
MMRLInterfaceMethod(env, m, ans) ==
    IF ~isMMRL(env) THEN Outcome(Undefined, FALSE, <<>>, 0, 0)
    ELSE IF ~hasRequiredVersion(env, requireVersionNewAPIs)
    THEN Outcome(Undefined, FALSE, <<>>, 0, 0)
    ELSE [Forward(env, m, ans) EXCEPT !.ret = Undefined]

MmrlAccessGetters == {"hasAccessToFileSystem", "hasAccessToAdvancedKernelSuAPI"}

\* The host method behind each access getter.
MmrlAccessHostCall(g) ==
    IF g = "hasAccessToFileSystem" THEN "getHasAccessToFileSystem"
    ELSE "getHasAccessToAdvancedKernelSuAPI"

\* What each access getter returns when the context is not the host.
MmrlAccessDefault(g) == IF g = "hasAccessToFileSystem" THEN False ELSE True

\* hasAccessToFileSystem / hasAccessToAdvancedKernelSuAPI: the isMMRL
\* guard, then the host's answer.
MMRLInterfaceGetter(env, g, ans) ==
    IF ~isMMRL(env) THEN Outcome(MmrlAccessDefault(g), FALSE, <<>>, 0, 0)
    ELSE Forward(env, MmrlAccessHostCall(g), ans)

\* --- VersionInterface ---------------------------------------------------

\* VersionInterface.defaultNumber
defaultNumber == -1

\* VersionInterface.defaultString
defaultString == -1

VersionNumberGetters == {"versionCode", "rootVersionCode"}

VersionStringGetters ==
    {"versionName", "applicationId", "buildType", "platform", "rootVersionName"}

VersionBooleanGetters == {"isDevVersion", "isGooglePlayBuild"}

VersionGetters ==
    VersionNumberGetters \cup VersionStringGetters \cup VersionBooleanGetters

\* The two host calls behind a getter: the config object, then its method.
VersionHostCalls(g) ==
    CASE g = "versionCode" -> <<"getBuildConfig", "getVersionCode">>
      [] g = "versionName" -> <<"getBuildConfig", "getVersionName">>
      [] g = "applicationId" -> <<"getBuildConfig", "getApplicationId">>
      [] g = "buildType" -> <<"getBuildConfig", "getBuildType">>
      [] g = "isDevVersion" -> <<"getBuildConfig", "isDevVersion">>
      [] g = "isGooglePlayBuild" -> <<"getBuildConfig", "isGooglePlayBuild">>
      [] g = "platform" -> <<"getRootConfig", "getPlatform">>
      [] g = "rootVersionCode" -> <<"getRootConfig", "getVersionCode">>
      [] OTHER -> <<"getRootConfig", "getVersionName">>

\* What a getter returns without asking the host.
VersionDefault(g) ==
    CASE g \in VersionNumberGetters -> NumberValue(defaultNumber)
      [] g \in VersionStringGetters -> NumberValue(defaultString)
      [] OTHER -> False

\* One VersionInterface getter: the isMMRL and interface guard, then the
\* two calls on window.mmrl.
VersionInterfaceGetter(env, g, ans) ==
    IF ~isMMRL(env) \/ ~env.present
    THEN Outcome(VersionDefault(g), FALSE, <<>>, 0, 0)
    ELSE IF ans.threw THEN Outcome(Undefined, TRUE, VersionHostCalls(g), 0, 0)
    ELSE Outcome(ans.value, FALSE, VersionHostCalls(g), 0, 0)

\* --- SuFile -------------------------------------------------------------

SuFileMethods ==
    {"read", "write", "readAsBase64", "list", "size", "delete", "exists",
     "isDirectory", "isFile", "isSymLink", "mkdir", "mkdirs", "createNewFile",
     "renameTo", "copyTo", "canExecute", "canWrite", "canRead", "isHidden"}

SuFileFallbackAllFalse(m) == False

\* The fallback each SuFile method hands to _try.
SuFileFallback(m) ==
    CASE m \in {"read", "readAsBase64"} -> Null
      [] m = "list" -> <<"[", "]">>
      [] m = "size" -> Zero
      [] OTHER -> False

\* SuFile._try: the function's value, or on an exception one console.error
\* and the fallback.
_try(fallback, m, ans) ==
    IF ans.threw THEN Outcome(fallback, FALSE, <<m>>, 0, 1)
    ELSE Outcome(ans.value, FALSE, <<m>>, 0, 0)

SuFileMethod(m, ans) == _try(SuFileFallback(m), m, ans)

\* --- the host's side and the calls -----------------------------------------

\* What the host method may do when called: return a value of its type, or
\* throw.
HostAnswers(cls, m) ==
    {Throws} \cup
    { Returns(v) : v \in
        CASE cls = "VersionInterface" /\ m \in VersionNumberGetters -> {Seven}
          [] cls = "VersionInterface" /\ m \in VersionStringGetters -> {<<"x">>}
          [] cls = "VersionInterface" -> {True, False}
          [] cls = "MMRLInterface" /\ m \in MmrlAccessGetters -> {True, False}
          [] cls \in {"Toast", "MMRLInterface"} -> {Undefined}
          [] m \in {"read", "readAsBase64", "list"} -> {Null, <<"x">>}
          [] m \in {"size", "stat"} -> {Zero, Seven}
          [] m = "write" /\ cls = "FileSystem" -> {Undefined}
          [] OTHER -> {True, False} }

NoCall ==
    [cls |-> "none", method |-> "none", args |-> <<>>, ans |-> Throws,
     out |-> Outcome(Undefined, FALSE, <<>>, 0, 0)]

FileSystemCall ==
    /\ \E m \in FsMethods : \E args \in FsArgs(m) :
       \E ans \in HostAnswers("FileSystem", m) :
         lastCall' = [cls |-> "FileSystem", method |-> m, args |-> args,
                      ans |-> ans,
                      out |-> FileSystemInvoke(accEnv, m, args, ans)]
    /\ UNCHANGED <<accEnv, toastDuration>>
    /\ UNCHANGED <<fetchVars, cfgVars, scopeVars, propVars>>

ToastCall ==
    /\ \E m \in ToastMethods : \E args \in ToastArgs(m) :
       \E ans \in HostAnswers("Toast", m) :
         /\ lastCall' = [cls |-> "Toast", method |-> m, args |-> args,
                         ans |-> ans, out |-> ToastMethod(accEnv, m, args, ans)]
         /\ toastDuration' = ToastDurationAfter(accEnv, toastDuration, m, args)
    /\ UNCHANGED accEnv
    /\ UNCHANGED <<fetchVars, cfgVars, scopeVars, propVars>>

MMRLInterfaceCall ==
    /\ \E m \in MmrlGatedMethods : \E ans \in HostAnswers("MMRLInterface", m) :
         lastCall' = [cls |-> "MMRLInterface", method |-> m, args |-> <<>>,
                      ans |-> ans, out |-> MMRLInterfaceMethod(accEnv, m, ans)]
    /\ UNCHANGED <<accEnv, toastDuration>>
    /\ UNCHANGED <<fetchVars, cfgVars, scopeVars, propVars>>

MMRLInterfaceGet ==
    /\ \E g \in MmrlAccessGetters : \E ans \in HostAnswers("MMRLInterface", g) :
         lastCall' = [cls |-> "MMRLInterface", method |-> g, args |-> <<>>,
                      ans |-> ans, out |-> MMRLInterfaceGetter(accEnv, g, ans)]
    /\ UNCHANGED <<accEnv, toastDuration>>
    /\ UNCHANGED <<fetchVars, cfgVars, scopeVars, propVars>>

VersionInterfaceCall ==
    /\ \E g \in VersionGetters : \E ans \in HostAnswers("VersionInterface", g) :
         lastCall' = [cls |-> "VersionInterface", method |-> g, args |-> <<>>,
                      ans |-> ans, out |-> VersionInterfaceGetter(accEnv, g, ans)]
    /\ UNCHANGED <<accEnv, toastDuration>>
    /\ UNCHANGED <<fetchVars, cfgVars, scopeVars, propVars>>

SuFileCall ==
    /\ \E m \in SuFileMethods : \E ans \in HostAnswers("SuFile", m) :
         lastCall' = [cls |-> "SuFile", method |-> m, args |-> <<>>,
                      ans |-> ans, out |-> SuFileMethod(m, ans)]
    /\ UNCHANGED <<accEnv, toastDuration>>
    /\ UNCHANGED <<fetchVars, cfgVars, scopeVars, propVars>>

AccessorIdle ==
    /\ accEnv = [userAgentIsHost |-> TRUE, present |-> TRUE, versionCode |-> 33162]
    /\ toastDuration = LENGTH_SHORT
    /\ lastCall = NoCall

InitAccessor ==
    /\ accEnv \in Envs
    /\ toastDuration = LENGTH_SHORT
    /\ lastCall = NoCall

NextAccessor ==
    \/ FileSystemCall
    \/ ToastCall
    \/ MMRLInterfaceCall
    \/ MMRLInterfaceGet
    \/ VersionInterfaceCall
    \/ SuFileCall


\* ========================================================================
\* Config: an in-memory document over a JSON file read and written through
\* FileSystem
\* ========================================================================

\* Property names of a document, in the order JSON.stringify lists them here.
KeyOrder == <<"a", "b">>

Keys == {KeyOrder[i] : i \in 1..Len(KeyOrder)}

\* A document value: undefined, a number, a string or an object (a function
\* from its own property names to values).
Undef == [t |-> "undefined", n |-> 0, o |-> <<>>]

Num(n) == [t |-> "number", n |-> n, o |-> <<>>]

Str(n) == [t |-> "string", n |-> n, o |-> <<>>]

Obj(f) == [t |-> "object", n |-> 0, o |-> f]

EmptyObj == Obj(<<>>)

\* The key strings passed to get and set: a property name, or two joined
\* by a dot.
KeyStrings == {<<k>> : k \in Keys} \cup {<<k, ".", j>> : k \in Keys, j \in Keys}

\* lodash castPath/stringToPath: the property names between the dots.
toPath(key) == SelectSeq(key, LAMBDA c : c # ".")

Paths == {toPath(key) : key \in KeyStrings}

\* object[key] for a value that may be a primitive or lack the property.
Prop(v, k) == IF v.t = "object" /\ k \in DOMAIN v.o THEN v.o[k] ELSE Undef

\* object[key] = value
Assign(f, k, v) == [j \in (DOMAIN f) \cup {k} |-> IF j = k THEN v ELSE f[j]]

\* lodash baseGet: follow the path while the value is not null/undefined.
RECURSIVE baseGet(_, _)
baseGet(v, path) ==
    IF path = <<>> THEN v
    ELSE IF v.t = "undefined" THEN Undef
    ELSE baseGet(Prop(v, path[1]), Tail(path))

\* lodash _.get(object, path, defaultValue): the default stands in for an
\* undefined result.
lodashGet(object, key, def) ==
    LET result == baseGet(object, toPath(key))
    IN  IF result.t = "undefined" THEN def ELSE result

\* lodash baseSet: walk the path, replacing every intermediate value that
\* is no object by a new object, and assign the value at its end.
RECURSIVE baseSet(_, _, _)
baseSet(object, path, value) ==
    IF object.t # "object" THEN object
    ELSE IF Len(path) = 1 THEN Obj(Assign(object.o, path[1], value))
    ELSE LET objValue == Prop(object, path[1])
             nested   == IF objValue.t = "object" THEN objValue ELSE EmptyObj
         IN  Obj(Assign(object.o, path[1], baseSet(nested, Tail(path), value)))

lodashSetFlat(object, key, value) ==
    IF object.t # "object" THEN object
    ELSE Obj(Assign(object.o, key[1], value))

\* lodash _.set(object, path, value)
lodashSet(object, key, value) == baseSet(object, toPath(key), value)

\* JSON.stringify of a document value, as its tokens: a property whose
\* value is undefined is left out.  (The indentation asked for by the third
\* argument is white space and is not kept.)
RECURSIVE JSONStringify(_)
RECURSIVE StringifyMembers(_, _, _)
StringifyMembers(f, i, first) ==
    IF i > Len(KeyOrder) THEN <<>>
    ELSE LET k == KeyOrder[i]
         IN  IF k \in DOMAIN f /\ f[k].t # "undefined"
             THEN (IF first THEN <<>> ELSE <<",">>)
                  \o <<k, ":">> \o JSONStringify(f[k])
                  \o StringifyMembers(f, i + 1, FALSE)
             ELSE StringifyMembers(f, i + 1, first)

JSONStringify(v) ==
    CASE v.t = "number" -> <<IF v.n = 1 THEN "1" ELSE "2">>
      [] v.t = "string" -> <<"s">>
      [] v.t = "object" -> <<"{">> \o StringifyMembers(v.o, 1, TRUE) \o <<"}">>
      [] OTHER -> <<>>

\* JSON.parse of a document text.  ParseValue reads one value from the
\* front of the tokens and returns it with the tokens left over;
\* ParseMembers reads the members of an object up to its closing brace.
DocFail == [ok |-> FALSE, value |-> Undef, rest |-> <<>>]

RECURSIVE ParseValue(_)
RECURSIVE ParseMembers(_, _)
ParseMembers(toks, f) ==
    IF Len(toks) < 3 \/ toks[1] \notin Keys \/ toks[2] # ":" THEN DocFail
    ELSE LET v == ParseValue(SubSeq(toks, 3, Len(toks)))
         IN  IF ~v.ok \/ v.rest = <<>> THEN DocFail
             ELSE IF v.rest[1] = "}"
             THEN [ok |-> TRUE, value |-> Obj(Assign(f, toks[1], v.value)),
                   rest |-> Tail(v.rest)]
             ELSE IF v.rest[1] = ","
             THEN ParseMembers(Tail(v.rest), Assign(f, toks[1], v.value))
             ELSE DocFail

ParseValue(toks) ==
    IF toks = <<>> THEN DocFail
    ELSE IF toks[1] = "1" THEN [ok |-> TRUE, value |-> Num(1), rest |-> Tail(toks)]
    ELSE IF toks[1] = "2" THEN [ok |-> TRUE, value |-> Num(2), rest |-> Tail(toks)]
    ELSE IF toks[1] # "{" THEN DocFail
    ELSE IF Len(toks) >= 2 /\ toks[2] = "}"
    THEN [ok |-> TRUE, value |-> EmptyObj, rest |-> SubSeq(toks, 3, Len(toks))]
    ELSE ParseMembers(Tail(toks), <<>>)

\* JSON.parse(fileContent): the document, or a SyntaxError.
JSONParseDoc(text) ==
    LET v == ParseValue(text)
    IN  IF v.ok /\ v.rest = <<>> THEN v ELSE DocFail


\* --- the host's file system under the Config ---------------------------------

\* The host's read of a file that does not exist.
NoFile == Null

\* The text the constructor writes into a new file.
EmptyDocText == <<"{", "}">>

\* What config.json may hold before the Config is constructed: nothing, an
\* empty or cut-off text, or the text of an object.
InitialFiles ==
    {NoFile, <<>>, <<"{">>, EmptyDocText,
     JSONStringify(Obj([k \in {"a"} |-> Num(1)])),
     JSONStringify(Obj([k \in {"a"} |-> Obj([j \in {"b"} |-> Num(2)])]))}

\* The hosts a Config is constructed on.
CfgEnvs == {e \in Envs : e.versionCode \in {33161, 33162}}

\* if (!fileContent): null and the empty string.
NoFileContent(v) == ~Truthy(v)

\* The Config constructor: make sure the file exists, then load it.  file
\* and dir are the host's state before, mk is what the host's mkdirs
\* answers if it is asked.  phase "threw" stands for an exception out of
\* the constructor.
ConstructConfig(env, file, dir, mk) ==
    LET failed(f, d, asked) ==
            [phase |-> "threw", config |-> Undef, file |-> f, dir |-> d,
             mkdirs |-> asked]
        exists == FileSystemMethod(env, "exists", Returns(Bool(file # NoFile)))
        mkdirs == FileSystemMethod(env, "mkdirs", Returns(Bool(mk)))
        asked  == IF exists.threw \/ Truthy(exists.ret) THEN "no"
                  ELSE IF mkdirs.threw THEN "threw"
                  ELSE IF mkdirs.hostCalls = <<>> THEN "skipped"
                  ELSE IF Truthy(mkdirs.ret) THEN "true" ELSE "false"
        dir1   == dir \/ asked = "true"
        write  == FileSystemMethod(env, "write", Returns(Undefined))
        wrote  == asked = "true" /\ ~write.threw /\ write.hostCalls # <<>>
        file1  == IF wrote THEN EmptyDocText ELSE file
        read   == FileSystemMethod(env, "read", Returns(file1))
        parsed == JSONParseDoc(read.ret)
    IN  IF exists.threw THEN failed(file, dir, asked)
        ELSE IF asked = "threw" THEN failed(file, dir, asked)
        ELSE IF asked = "true" /\ write.threw THEN failed(file, dir1, asked)
        ELSE IF read.threw THEN failed(file1, dir1, asked)
        ELSE IF NoFileContent(read.ret) THEN failed(file1, dir1, asked)
        ELSE IF ~parsed.ok THEN failed(file1, dir1, asked)
        ELSE [phase |-> "ready", config |-> parsed.value, file |-> file1,
              dir |-> dir1, mkdirs |-> asked]

SavedDocumentStale(before, after) == before

\* The document _saveConfig serializes: set mutates this.config first and
\* saves afterwards.
SavedDocument(before, after) == after

\* Whether a set on path q replaces or reshapes what stands at path p.
Related(p, q) ==
    \/ Len(p) <= Len(q) /\ SubSeq(q, 1, Len(p)) = p
    \/ Len(q) <= Len(p) /\ SubSeq(p, 1, Len(q)) = q

NoTrace ==
    [op |-> "none", key |-> <<>>, value |-> Undef, def |-> Undef, ret |-> Undef,
     writes |-> <<>>, fileMissing |-> FALSE, dirMissing |-> FALSE,
     mkdirs |-> "no"]

\* new Config(scope)
Construct ==
    /\ cfgPhase = "new"
    /\ \E mk \in BOOLEAN :
        LET r == ConstructConfig(cfgEnv, diskFile, diskDir, mk)
        IN  /\ cfgPhase' = r.phase
            /\ config' = r.config
            /\ loaded' = r.config
            /\ diskFile' = r.file
            /\ diskDir' = r.dir
            /\ cfgTrace' = [NoTrace EXCEPT !.op = "construct",
                                           !.fileMissing = (diskFile = NoFile),
                                           !.dirMissing = ~diskDir,
                                           !.mkdirs = r.mkdirs,
                                           !.writes = IF r.file # diskFile
                                                      THEN <<r.file>> ELSE <<>>]
    /\ UNCHANGED <<cfgEnv, lastSet, setCount, otherCfg, lastSetter>>
    /\ UNCHANGED <<fetchVars, accVars, scopeVars, propVars>>

\* Config.set(key, value): _.set on this.config, then _saveConfig.
Set ==
    /\ cfgPhase = "ready"
    /\ setCount < MaxSets
    /\ \E key \in KeyStrings : \E value \in {Undef, Num(1), Num(2)} :
        LET after == lodashSet(config, key, value)
            text  == JSONStringify(SavedDocument(config, after))
            write == FileSystemMethod(cfgEnv, "write", Returns(Undefined))
            wrote == ~write.threw /\ write.hostCalls # <<>>
        IN  /\ config' = after
            /\ diskFile' = IF wrote THEN text ELSE diskFile
            /\ cfgTrace' = [NoTrace EXCEPT !.op = "set", !.key = key,
                                           !.value = value,
                                           !.writes = IF wrote THEN <<text>>
                                                      ELSE <<>>]
            /\ lastSet' = [p \in Paths |->
                             IF p = toPath(key)
                             THEN [valid |-> TRUE, value |-> value, touched |-> TRUE,
                                   beside |-> otherCfg.phase = "ready"]
                             ELSE IF Related(p, toPath(key))
                             THEN [valid |-> FALSE, value |-> Undef, touched |-> TRUE,
                                   beside |-> FALSE]
                             ELSE lastSet[p]]
    /\ setCount' = setCount + 1
    /\ lastSetter' = "this"
    /\ UNCHANGED <<cfgEnv, diskDir, cfgPhase, loaded, otherCfg>>
    /\ UNCHANGED <<fetchVars, accVars, scopeVars, propVars>>

\* Config.get(key, def)
Get ==
    /\ cfgPhase = "ready"
    /\ \E key \in KeyStrings : \E def \in {Str(1), Str(2)} :
        cfgTrace' = [NoTrace EXCEPT !.op = "get", !.key = key, !.def = def,
                                    !.ret = lodashGet(config, key, def)]
    /\ UNCHANGED <<cfgEnv, diskFile, diskDir, cfgPhase, config, loaded, lastSet,
                   setCount, otherCfg, lastSetter>>
    /\ UNCHANGED <<fetchVars, accVars, scopeVars, propVars>>

\* new Config(scope) once more, for the scope of the first instance.
ConstructOther ==
    /\ cfgPhase = "ready"
    /\ otherCfg.phase = "new"
    /\ \E mk \in BOOLEAN :
        LET r == ConstructConfig(cfgEnv, diskFile, diskDir, mk)
        IN  /\ otherCfg' = [phase |-> r.phase, config |-> r.config,
                            loaded |-> r.config, touched |-> {}]
            /\ diskFile' = r.file
            /\ diskDir' = r.dir
            /\ cfgTrace' = [NoTrace EXCEPT !.op = "constructOther",
                                           !.fileMissing = (diskFile = NoFile),
                                           !.dirMissing = ~diskDir,
                                           !.mkdirs = r.mkdirs,
                                           !.writes = IF r.file # diskFile
                                                      THEN <<r.file>> ELSE <<>>]
    /\ UNCHANGED <<cfgEnv, cfgPhase, config, loaded, lastSet, setCount,
                   lastSetter>>
    /\ UNCHANGED <<fetchVars, accVars, scopeVars, propVars>>

\* set(key, value) on the second instance: its own document is mutated
\* and saved to the one file.
SetOther ==
    /\ otherCfg.phase = "ready"
    /\ setCount < MaxSets
    /\ \E key \in KeyStrings : \E value \in {Undef, Num(1), Num(2)} :
        LET after == lodashSet(otherCfg.config, key, value)
            text  == JSONStringify(SavedDocument(otherCfg.config, after))
            write == FileSystemMethod(cfgEnv, "write", Returns(Undefined))
            wrote == ~write.threw /\ write.hostCalls # <<>>
        IN  /\ otherCfg' = [otherCfg EXCEPT
                              !.config = after,
                              !.touched = @ \cup {p \in Paths :
                                                    Related(p, toPath(key))}]
            /\ diskFile' = IF wrote THEN text ELSE diskFile
            /\ cfgTrace' = [NoTrace EXCEPT !.op = "setOther", !.key = key,
                                           !.value = value,
                                           !.writes = IF wrote THEN <<text>>
                                                      ELSE <<>>]
    /\ setCount' = setCount + 1
    /\ lastSetter' = "other"
    /\ UNCHANGED <<cfgEnv, diskDir, cfgPhase, config, loaded, lastSet>>
    /\ UNCHANGED <<fetchVars, accVars, scopeVars, propVars>>

\* The second instance: its phase, its document now and as loaded, and
\* the key paths its own sets have written or reshaped.
NoOther == [phase |-> "new", config |-> Undef, loaded |-> Undef, touched |-> {}]

NothingSet ==
    [p \in Paths |-> [valid |-> FALSE, value |-> Undef, touched |-> FALSE,
                      beside |-> FALSE]]

ConfigIdle ==
    /\ cfgEnv = [userAgentIsHost |-> TRUE, present |-> TRUE, versionCode |-> 33162]
    /\ diskFile = NoFile
    /\ diskDir = FALSE
    /\ cfgPhase = "new"
    /\ config = Undef
    /\ loaded = Undef
    /\ cfgTrace = NoTrace
    /\ lastSet = NothingSet
    /\ setCount = 0
    /\ otherCfg = NoOther
    /\ lastSetter = "none"

InitConfig ==
    /\ cfgEnv \in CfgEnvs
    /\ diskFile \in InitialFiles
    /\ diskDir \in BOOLEAN
    /\ diskFile # NoFile => diskDir
    /\ cfgPhase = "new"
    /\ config = Undef
    /\ loaded = Undef
    /\ cfgTrace = NoTrace
    /\ lastSet = NothingSet
    /\ setCount = 0
    /\ otherCfg = NoOther
    /\ lastSetter = "none"

NextConfig ==
    \/ Construct
    \/ Set
    \/ Get

\* Two instances: a get changes nothing and returns _.get of the
\* instance's own document, so only the constructions and the sets are
\* followed.
NextTwoConfigs ==
    \/ Construct
    \/ ConstructOther
    \/ Set
    \/ SetOther

\* ========================================================================
\* AccessorScope: from a scope string to the name of the host's global
\* ========================================================================

\* The characters a scope string is made of here: a letter in both cases,
\* the two characters sanitizeScope replaces, and the one it replaces them
\* by.
ScopeChars == {"a", "A", "-", ".", "_"}

RECURSIVE sanitizeScopeFirstOnly(_)
sanitizeScopeFirstOnly(s) ==
    IF s = <<>> THEN <<>>
    ELSE IF Head(s) \in {"-", "."} THEN <<"_">> \o Tail(s)
    ELSE <<Head(s)>> \o sanitizeScopeFirstOnly(Tail(s))

\* AccessorScope.sanitizeScope: scope.replace(/[-.]/g, "_"), every match
\* from left to right.
RECURSIVE sanitizeScope(_)
sanitizeScope(s) ==
    IF s = <<>> THEN <<>>
    ELSE IF Head(s) \in {"-", "."} THEN <<"_">> \o sanitizeScope(Tail(s))
    ELSE <<Head(s)>> \o sanitizeScope(Tail(s))

\* String.prototype.toUpperCase on one character.
toUpperCase(c) == IF c = "a" THEN "A" ELSE c

sanitizedModIdWithFileWhole(s) ==
    LET z == sanitizeScope(s)
    IN  (IF Len(z) >= 2 THEN <<toUpperCase(z[1])>> \o Tail(z)
         ELSE IF Len(z) > 0 THEN <<toUpperCase(z[1])>>
         ELSE <<>>) \o <<"F", "i", "l", "e">>

\* AccessorScope.sanitizedModIdWithFile: the first character of the
\* sanitized scope in upper case, its second character, then "File".
sanitizedModIdWithFile(s) ==
    LET z == sanitizeScope(s)
    IN  (IF Len(z) >= 2 THEN <<toUpperCase(z[1]), z[2]>>
         ELSE IF Len(z) > 0 THEN <<toUpperCase(z[1])>>
         ELSE <<>>) \o <<"F", "i", "l", "e">>

\* `$${name}`
Dollar(name) == <<"$">> \o name

\* A scope that is no string: an object handed over by the caller.
ScopeObject == <<"#object">>

\* The globals the host may have defined; an object on window is known by
\* the name it stands under.
GlobalPool ==
    {<<"$", "a", "-">>, <<"$", "a", "_">>,
     <<"$", "A", "_", "F", "i", "l", "e">>, <<"$", "a", "_", "F", "i", "l", "e">>}

\* window[name]
WindowLookup(G, name) == IF name \in G THEN name ELSE Undefined

\* What an AccessorScope call came to: the names looked up on window, in
\* order, and the value returned.
Parsed(lookups, ret) == [lookups |-> lookups, ret |-> ret]

\* AccessorScope.parseFileScope
parseFileScope(G, arg) ==
    IF arg # ScopeObject
    THEN LET name == Dollar(sanitizedModIdWithFile(arg))
         IN  Parsed(<<name>>, WindowLookup(G, name))
    ELSE Parsed(<<>>, arg)

parseScopeUnsanitizedFirst(G, arg) ==
    IF arg # ScopeObject
    THEN LET sanitizedScope   == WindowLookup(G, Dollar(sanitizeScope(arg)))
             unsanitizedScope == WindowLookup(G, Dollar(arg))
         IN  Parsed(<<Dollar(sanitizeScope(arg)), Dollar(arg)>>,
                    IF unsanitizedScope # Undefined THEN unsanitizedScope
                    ELSE sanitizedScope)
    ELSE Parsed(<<>>, arg)

\* AccessorScope.parseScope
parseScope(G, arg) ==
    IF arg # ScopeObject
    THEN LET sanitizedScope   == WindowLookup(G, Dollar(sanitizeScope(arg)))
             unsanitizedScope == WindowLookup(G, Dollar(arg))
         IN  Parsed(<<Dollar(sanitizeScope(arg)), Dollar(arg)>>,
                    IF sanitizedScope # Undefined THEN sanitizedScope
                    ELSE unsanitizedScope)
    ELSE Parsed(<<>>, arg)

NoScopeCall == [op |-> "none", arg |-> <<>>, lookups |-> <<>>, ret |-> Undefined]

\* sanitizeScope is applied to the scope, and then to its own result.
SanitizeScope ==
    /\ Len(sanitized) < 2
    /\ sanitized' = Append(sanitized,
                           sanitizeScope(IF sanitized = <<>> THEN scope
                                         ELSE sanitized[Len(sanitized)]))
    /\ UNCHANGED <<scope, globals, scopeCall>>
    /\ UNCHANGED <<fetchVars, cfgVars, accVars, propVars>>

\* AccessorScope.parseScope(scope), with the scope string or an object.
ParseScope ==
    /\ \E arg \in {scope, ScopeObject} :
         LET r == parseScope(globals, arg)
         IN  scopeCall' = [op |-> "parseScope", arg |-> arg,
                           lookups |-> r.lookups, ret |-> r.ret]
    /\ UNCHANGED <<scope, sanitized, globals>>
    /\ UNCHANGED <<fetchVars, cfgVars, accVars, propVars>>

\* AccessorScope.parseFileScope(scope), with the scope string or an object.
ParseFileScope ==
    /\ \E arg \in {scope, ScopeObject} :
         LET r == parseFileScope(globals, arg)
         IN  scopeCall' = [op |-> "parseFileScope", arg |-> arg,
                           lookups |-> r.lookups, ret |-> r.ret]
    /\ UNCHANGED <<scope, sanitized, globals>>
    /\ UNCHANGED <<fetchVars, cfgVars, accVars, propVars>>

\* new FileSystem(scope): the constructor hands parseFileScope(scope) to the
\* accessor as its host interface. new Config(scope) builds its file system
\* by this very call, with the same scope.
NewFileSystem ==
    /\ \E arg \in {scope, ScopeObject} :
         LET parsedScope == parseFileScope(globals, arg)
         IN  scopeCall' = [op |-> "new FileSystem", arg |-> arg,
                           lookups |-> parsedScope.lookups,
                           ret |-> parsedScope.ret]
    /\ UNCHANGED <<scope, sanitized, globals>>
    /\ UNCHANGED <<fetchVars, cfgVars, accVars, propVars>>

ScopeIdle ==
    /\ scope = <<>>
    /\ sanitized = <<>>
    /\ globals = {}
    /\ scopeCall = NoScopeCall

InitScope ==
    /\ scope \in SeqsUpTo(ScopeChars, MaxScopeLen)
    /\ sanitized = <<>>
    /\ globals \in SUBSET GlobalPool
    /\ scopeCall = NoScopeCall

NextScope ==
    \/ SanitizeScope
    \/ ParseScope
    \/ ParseFileScope
    \/ NewFileSystem

\* ========================================================================
\* NativeProperty: the accessor pair a decorated property is replaced by
\* ========================================================================

\* options.requireVersion: a number, or left out.
NoRequireVersion == [given |-> FALSE, n |-> 0]

RequireVersion(n) == [given |-> TRUE, n |-> n]

\* The options of a decoration: options.default (undefined when left out),
\* options.deprecated and options.requireVersion.
PropertyOptions ==
    [default : {Undefined, Zero},
     deprecated : BOOLEAN,
     requireVersion : {NoRequireVersion, RequireVersion(requireVersionNewAPIs)}]

\* The window at decoration and afterwards: whether navigator.userAgent is
\* the host's signature, whether window["mmrl"] is there, and the version
\* code its build configuration reports.
PropertyEnvs ==
    [userAgentIsHost : BOOLEAN, present : BOOLEAN,
     versionCode : {33044, requireVersionNewAPIs}]

\* The instances of the decorated class.
Instances == {"A", "B"}

\* The values a caller assigns to the property.
PropertyValues == {Zero, Seven}

ValueCellPerInstance(instance) == instance

\* Where the value read or written through an instance is kept: in the one
\* variable `value` of the decoration's closure, whatever the instance.
ValueCell(instance) == "closure"

ValueCells == {ValueCell(instance) : instance \in Instances}

\* What a run of the getter or the setter came to: the value then held, the
\* value returned and the warnings written to the console.
Accessed(held, ret, warnings) ==
    [held |-> held, ret |-> ret, warnings |-> warnings]

DeprecationWarning(opt) ==
    IF opt.deprecated THEN <<"deprecated">> ELSE <<>>

getterNoVersionCheck(env, opt, held) ==
    IF ~env.userAgentIsHost
    THEN Accessed(held, opt.default, DeprecationWarning(opt))
    ELSE Accessed(held, held, DeprecationWarning(opt))

\* The getter of the decoration.
getter(env, opt, held) ==
    IF ~env.userAgentIsHost
    THEN Accessed(held, opt.default, DeprecationWarning(opt))
    ELSE IF opt.requireVersion.given /\ ~env.present
    THEN Accessed(held, opt.default,
                  DeprecationWarning(opt) \o <<"not available">>)
    ELSE IF opt.requireVersion.given
            /\ env.versionCode < opt.requireVersion.n
    THEN Accessed(held, opt.default,
                  DeprecationWarning(opt) \o <<"requires version">>)
    ELSE Accessed(held, held, DeprecationWarning(opt))

\* The setter of the decoration. What it returns is dropped by the
\* assignment that runs it.
setter(env, opt, held, newValue) ==
    IF ~env.userAgentIsHost
    THEN Accessed(held, Undefined, DeprecationWarning(opt))
    ELSE IF opt.requireVersion.given /\ ~env.present
    THEN Accessed(held, opt.default,
                  DeprecationWarning(opt) \o <<"not available">>)
    ELSE IF opt.requireVersion.given
            /\ env.versionCode < opt.requireVersion.n
    THEN Accessed(held, opt.default,
                  DeprecationWarning(opt) \o <<"requires version">>)
    ELSE Accessed(newValue, Undefined, DeprecationWarning(opt))

NoPropertyCall ==
    [op |-> "none", on |-> "none", arg |-> Undefined, ret |-> Undefined,
     warnings |-> <<>>, held |-> Undefined,
     prior |-> [op |-> "none", on |-> "none", arg |-> Undefined]]

\* The call before this one.
Prior == [op |-> propCall.op, on |-> propCall.on, arg |-> propCall.arg]

\* instance.property is read.
PropertyGet ==
    /\ \E instance \in Instances :
         LET held == storedValue[ValueCell(instance)]
             got  == getter(propEnv, propOptions, held)
         IN  propCall' = [op |-> "get", on |-> instance, arg |-> Undefined,
                          ret |-> got.ret, warnings |-> got.warnings,
                          held |-> held, prior |-> Prior]
    /\ UNCHANGED <<propEnv, propOptions, storedValue>>
    /\ UNCHANGED <<fetchVars, cfgVars, accVars, scopeVars>>

\* instance.property = newValue
PropertySet ==
    /\ \E instance \in Instances, newValue \in PropertyValues :
         LET held == storedValue[ValueCell(instance)]
             put  == setter(propEnv, propOptions, held, newValue)
         IN  /\ storedValue' = [storedValue EXCEPT ![ValueCell(instance)] = put.held]
             /\ propCall' = [op |-> "set", on |-> instance,
                              arg |-> newValue, ret |-> put.ret,
                              warnings |-> put.warnings, held |-> held,
                              prior |-> Prior]
    /\ UNCHANGED <<propEnv, propOptions>>
    /\ UNCHANGED <<fetchVars, cfgVars, accVars, scopeVars>>

PropertyIdle ==
    /\ propEnv = [userAgentIsHost |-> TRUE, present |-> TRUE,
                  versionCode |-> requireVersionNewAPIs]
    /\ propOptions = [default |-> Undefined, deprecated |-> FALSE,
                      requireVersion |-> NoRequireVersion]
    /\ storedValue = [cell \in ValueCells |-> Undefined]
    /\ propCall = NoPropertyCall

\* NativeProperty(options)(target, propertyKey): nothing is held yet.
InitProperty ==
    /\ propEnv \in PropertyEnvs
    /\ propOptions \in PropertyOptions
    /\ storedValue = [cell \in ValueCells |-> Undefined]
    /\ propCall = NoPropertyCall

NextProperty ==
    \/ PropertyGet
    \/ PropertySet

\* ========================================================================
\* Specifications
\* ========================================================================

StartFetch ==
    /\ InitFetch
    /\ ConfigIdle
    /\ AccessorIdle
    /\ ScopeIdle
    /\ PropertyIdle

StartConfig ==
    /\ FetchIdle
    /\ InitConfig
    /\ AccessorIdle
    /\ ScopeIdle
    /\ PropertyIdle

StartAccessor ==
    /\ FetchIdle
    /\ ConfigIdle
    /\ InitAccessor
    /\ ScopeIdle
    /\ PropertyIdle

StartScope ==
    /\ FetchIdle
    /\ ConfigIdle
    /\ AccessorIdle
    /\ InitScope
    /\ PropertyIdle

StartProperty ==
    /\ FetchIdle
    /\ ConfigIdle
    /\ AccessorIdle
    /\ ScopeIdle
    /\ InitProperty

SpecFetch == StartFetch /\ [][NextFetch]_vars

SpecConfig == StartConfig /\ [][NextConfig]_vars

SpecTwoConfigs == StartConfig /\ [][NextTwoConfigs]_vars

SpecAccessor == StartAccessor /\ [][NextAccessor]_vars

SpecScope == StartScope /\ [][NextScope]_vars

SpecProperty == StartProperty /\ [][NextProperty]_vars


\* ========================================================================
\* Claims about SuFile.fetch (checked under SpecFetch)
\* ========================================================================

\* C1: on every way the stream can end (end of data, a read or parse error
\* in pull, the consumer's cancel, an abort before or after the Response
\* was produced) the host handle has received exactly one close() call; no
\* sequence of abort, pull and cancel leads to a second one.
C1_HandleClosedExactlyOnce == events # {} => closeCalls = 1

\* C2: once the abort signal has fired, no further readChunk call reaches
\* the host handle, even if the consumer keeps reading the body.
C2_NoReadChunkAfterAbort ==
    [][signal = "aborted" => readChunkCalls' = readChunkCalls]_vars

CeilDiv(n, c) == (n + c - 1) \div c

RECURSIVE Concat(_)
Concat(chunks) ==
    IF chunks = <<>> THEN <<>> ELSE Head(chunks) \o Concat(Tail(chunks))

\* C3: a file of N bytes read with chunk size C and no abort, cancel or
\* error: when the stream has closed, exactly ceil(N/C) chunks were
\* enqueued, in file order, and their concatenation is the file's bytes;
\* for N = 0 no chunk was enqueued.
C3_ChunksMakeUpTheFile ==
    (stream = "closed" /\ events = {"eof"} /\ signal # "aborted")
        => /\ Len(enqueued) = CeilDiv(Len(fileBytes), chunkSize)
           /\ Concat(enqueued) = fileBytes
           /\ Len(fileBytes) = 0 => enqueued = <<>>

\* A file that does not divide into whole chunks was streamed to its end.
C3_Witness ==
    /\ stream = "closed"
    /\ events = {"eof"}
    /\ signal # "aborted"
    /\ Len(enqueued) >= 2
    /\ Len(fileBytes) % chunkSize # 0
    /\ queue = <<>>


\* ========================================================================
\* Claims about Config (checked under SpecConfig)
\* ========================================================================

\* C4: every Config.set makes exactly one host write, of the serialization
\* of the whole in-memory document as it stands after the mutation; so
\* after any sequence of sets the content last written to config.json is
\* the serialization of Config.config.
C4_FileMirrorsConfigAfterSet ==
    /\ cfgTrace.op = "set" => cfgTrace.writes = <<JSONStringify(config)>>
    /\ (cfgPhase = "ready" /\ setCount > 0) => diskFile = JSONStringify(config)

\* Two sets have been made, the last one into a nested object.
C4_Witness ==
    /\ cfgTrace.op = "set"
    /\ setCount >= 2
    /\ Len(toPath(cfgTrace.key)) = 2
    /\ cfgTrace.value # Undef
    /\ diskFile # JSONStringify(loaded)

\* C5 as stated: set(k, v) followed by get(k, d), with no set in between on
\* k or on a prefix or extension of k, returns v and not d, for every k, v
\* and d; a get on a key never set and not in the loaded file returns d.
C5_GetReturnsWhatWasSet ==
    cfgTrace.op = "get" =>
        LET p == toPath(cfgTrace.key)
        IN  /\ lastSet[p].valid =>
                 (cfgTrace.ret = lastSet[p].value /\ cfgTrace.ret # cfgTrace.def)
            /\ (~lastSet[p].touched /\ baseGet(loaded, p) = Undef) =>
                 cfgTrace.ret = cfgTrace.def

\* C5 as amended: the same for every value v other than undefined.
C5_GetReturnsDefinedValueSet ==
    cfgTrace.op = "get" =>
        LET p == toPath(cfgTrace.key)
        IN  /\ (lastSet[p].valid /\ lastSet[p].value # Undef) =>
                 (cfgTrace.ret = lastSet[p].value /\ cfgTrace.ret # cfgTrace.def)
            /\ (~lastSet[p].touched /\ baseGet(loaded, p) = Undef) =>
                 cfgTrace.ret = cfgTrace.def

\* A nested key was set to a number over a loaded document that held a
\* number at its first segment, another key was set afterwards, and the
\* nested key is read back.
C5_Witness ==
    /\ cfgTrace.op = "get"
    /\ Len(toPath(cfgTrace.key)) = 2
    /\ lastSet[toPath(cfgTrace.key)].valid
    /\ lastSet[toPath(cfgTrace.key)].value = Num(2)
    /\ baseGet(loaded, <<cfgTrace.key[1]>>) = Num(1)
    /\ setCount >= 2
    /\ cfgTrace.ret = Num(2)

\* C6: when the config file does not exist at construction and the host is
\* present, construction completes with config = {} and the file existing,
\* whether or not the parent directory exists and whatever mkdirs returns.
C6_MissingFileIsCreated ==
    (/\ cfgTrace.op = "construct"
     /\ cfgTrace.fileMissing
     /\ isMMRL(cfgEnv)
     /\ cfgEnv.present)
        => /\ cfgPhase = "ready"
           /\ config = EmptyObj
           /\ diskFile = EmptyDocText


\* ========================================================================
\* Claims about the guarded accessor methods (checked under SpecAccessor)
\* ========================================================================

\* The defaults the FileSystem read-type methods are documented to return.
C7_DocumentedDefault(m) ==
    CASE m \in {"read", "readAsBase64", "list"} -> Null
      [] m \in {"size", "stat"} -> Zero
      [] OTHER -> False

\* C7: when the host object is absent (the context is not recognized as
\* the host, or the scope lookup yielded undefined), every FileSystem
\* read-type method returns its documented default, makes no call on the
\* host object and raises no error.
C7_AbsentHostGivesDefaults ==
    (/\ lastCall.cls = "FileSystem"
     /\ lastCall.method \in
            {"read", "readAsBase64", "list", "size", "stat", "exists", "delete",
             "isDirectory", "isFile", "canRead", "canExecute", "isHidden"}
     /\ (~accEnv.userAgentIsHost \/ ~accEnv.present))
        => /\ ~lastCall.out.threw
           /\ lastCall.out.hostCalls = <<>>
           /\ lastCall.out.ret = C7_DocumentedDefault(lastCall.method)

\* The version threshold the claims give for a method, or -1 for a method
\* that is not version gated.
ClaimedThreshold(cls, m) ==
    CASE cls = "FileSystem" /\ m \in
            {"isDirectory", "isFile", "mkdir", "mkdirs", "createNewFile",
             "renameTo", "copyTo", "canExecute", "canRead", "isHidden"} -> 33162
      [] cls = "Toast" /\ m \in
            {"setText", "setDuration", "setGravity", "show", "cancel"} -> 33049
      [] cls = "MMRLInterface" /\ m \in
            {"requestAdvancedKernelSUAPI", "requestFileSystemAPI"} -> 33045
      [] OTHER -> -1

\* The last call was a version-gated method on a host that is there.
GatedCallOnHost ==
    /\ ClaimedThreshold(lastCall.cls, lastCall.method) >= 0
    /\ accEnv.userAgentIsHost
    /\ accEnv.present

\* No call reached the host object; a FileSystem method returned false.
SkippedByVersion ==
    /\ lastCall.out.hostCalls = <<>>
    /\ ~lastCall.out.threw
    /\ lastCall.cls = "FileSystem" => lastCall.out.ret = False

\* Exactly one call reached the host object, the method's own; a
\* FileSystem method returned what the host returned.
ForwardedOnce ==
    /\ lastCall.out.hostCalls = <<lastCall.method>>
    /\ lastCall.out.threw = lastCall.ans.threw
    /\ (lastCall.cls = "FileSystem" /\ ~lastCall.ans.threw)
          => lastCall.out.ret = lastCall.ans.value

\* C8 as stated: a version-gated method makes no host call when the host's
\* version code is below its threshold and forwards exactly one host call
\* when the version code is at or above it.
C8_GatedByVersion ==
    GatedCallOnHost =>
        IF accEnv.versionCode < ClaimedThreshold(lastCall.cls, lastCall.method)
        THEN SkippedByVersion
        ELSE ForwardedOnce

\* C8 as amended: the same, where at or above the threshold a Toast setter
\* forwards its call only for arguments that pass its checks, and makes no
\* host call and raises for the others.
C8_GatedByVersionValidArgs ==
    GatedCallOnHost =>
        IF accEnv.versionCode < ClaimedThreshold(lastCall.cls, lastCall.method)
        THEN SkippedByVersion
        ELSE IF lastCall.cls = "Toast"
                /\ ~ToastArgsValid(lastCall.method, lastCall.args)
        THEN lastCall.out.hostCalls = <<>> /\ lastCall.out.threw
        ELSE ForwardedOnce

\* A gated FileSystem method was forwarded at exactly its threshold and
\* returned the host's true.
C8_Witness ==
    /\ GatedCallOnHost
    /\ lastCall.cls = "FileSystem"
    /\ lastCall.method = "mkdirs"
    /\ accEnv.versionCode = 33162
    /\ lastCall.out.hostCalls = <<"mkdirs">>
    /\ lastCall.out.ret = True

\* C9: every call of a version-gated FileSystem, Toast or MMRLInterface
\* method that is skipped because the host's version code is below the
\* threshold logs at least one console warning.
C9_SkippedCallWarns ==
    (/\ GatedCallOnHost
     /\ accEnv.versionCode < ClaimedThreshold(lastCall.cls, lastCall.method))
        => lastCall.out.warns >= 1

\* The fallbacks the SuFile methods are documented to return.
C10_DocumentedFallback(m) ==
    CASE m \in {"read", "readAsBase64"} -> Null
      [] m = "write" -> False
      [] m = "list" -> <<"[", "]">>
      [] m = "size" -> Zero
      [] OTHER -> False

C11_FileSystemSwallowsHostErrors ==
    (/\ lastCall.cls = "FileSystem"
     /\ lastCall.out.hostCalls # <<>>
     /\ lastCall.ans.threw)
        => /\ ~lastCall.out.threw
           /\ lastCall.out.errors >= 1
           /\ lastCall.out.ret = C7_DocumentedDefault(lastCall.method)


\* ========================================================================
\* Claims about construction (checked under SpecFetch)
\* ========================================================================

\* The error a construction is documented to fail with on a host state, or
\* "none" when it is to succeed.
C12_ExpectedError(cls, host) ==
    CASE host = "nointerface" -> "ReferenceError"
      [] host = "null" /\ cls = "SuFileInputStream" -> "Error"
      [] OTHER -> "none"

\* C12 as stated: a construction that fails (no global matching the
\* file-stream pattern: ReferenceError from SuFile and SuFileInputStream;
\* open(path) returning nothing: Error from SuFileInputStream) is not caught
\* internally and reaches the caller as a thrown exception, also when the
\* construction happens inside SuFile.fetch.
C12_ConstructionFailuresRaise ==
    lastNew.cls # "none" =>
        /\ lastNew.error = C12_ExpectedError(lastNew.cls, lastNew.host)
        /\ lastNew.error # "none" => (lastNew.raised /\ ~lastNew.caught)
        /\ lastNew.error = "none" => ~lastNew.raised

\* C12 as amended: a direct construction that fails raises to its caller;
\* the construction inside SuFile.fetch is caught there, no exception
\* reaches the caller of fetch and the returned promise is rejected, with
\* no stream created and no call on a handle.
C12_ConstructionFailuresRaiseOrReject ==
    lastNew.cls # "none" =>
        /\ lastNew.error = C12_ExpectedError(lastNew.cls, lastNew.host)
        /\ lastNew.error = "none" => (~lastNew.raised /\ ~lastNew.caught)
        /\ (lastNew.error # "none" /\ lastNew.site = "direct") =>
              (lastNew.raised /\ ~lastNew.caught)
        /\ (lastNew.error # "none" /\ lastNew.site = "fetch") =>
              /\ ~lastNew.raised /\ lastNew.caught
              /\ promise = "rejectedOpen"
              /\ stream = "none"
              /\ closeCalls = 0 /\ readChunkCalls = 0

\* A SuFileInputStream was constructed directly on a host whose open
\* returned nothing, and the Error reached the caller.
C12_Witness ==
    /\ lastNew.cls = "SuFileInputStream"
    /\ lastNew.site = "direct"
    /\ lastNew.host = "null"
    /\ lastNew.error = "Error"
    /\ lastNew.raised


\* ========================================================================
\* Further claims about the accessor methods (checked under SpecAccessor)
\* ========================================================================

\* The inputs C13 calls invalid: setText with a non-string, setDuration
\* with a non-number or a number other than 0 and 1, setGravity with any
\* argument that is not a number.
C13_InvalidInput(m, args) ==
    CASE m = "setText" -> args[1].type # "string"
      [] m = "setDuration" -> args[1].type # "number" \/ args[1].num \notin {0, 1}
      [] m = "setGravity" -> \E i \in 1..3 : args[i].type # "number"
      [] OTHER -> FALSE

\* C13 as stated: every Toast call with invalid input raises, invokes no
\* toast-builder method and leaves the stored duration unchanged.
C13_InvalidInputRaises ==
    [][(lastCall'.cls = "Toast"
          /\ C13_InvalidInput(lastCall'.method, lastCall'.args))
        => /\ lastCall'.out.threw
           /\ lastCall'.out.hostCalls = <<>>
           /\ toastDuration' = toastDuration]_vars

\* C13 as amended: the same on a recognized host whose toast builder exists
\* and whose version code is at least 33049; on any other host the call
\* returns without raising.  In both cases no toast-builder method is
\* invoked and the stored duration is unchanged.
C13_InvalidInputRaisesOnHost ==
    [][(lastCall'.cls = "Toast"
          /\ C13_InvalidInput(lastCall'.method, lastCall'.args))
        => /\ lastCall'.out.threw =
                (accEnv.userAgentIsHost /\ accEnv.present
                    /\ accEnv.versionCode >= 33049)
           /\ lastCall'.out.hostCalls = <<>>
           /\ toastDuration' = toastDuration]_vars

\* The duration had been set to LENGTH_LONG, then setDuration(2) raised and
\* the duration is still LENGTH_LONG.
C13_Witness ==
    /\ lastCall.cls = "Toast"
    /\ lastCall.method = "setDuration"
    /\ lastCall.args = <<NumberArg(2)>>
    /\ lastCall.out.threw
    /\ lastCall.out.hostCalls = <<>>
    /\ toastDuration = LENGTH_LONG


\* ========================================================================
\* Claims about AccessorScope (checked under SpecScope)
\* ========================================================================

\* C14: sanitizeScope(s) has the length of s, contains no '-' and no '.',
\* and is s with every '-' and every '.' replaced by '_' and every other
\* character unchanged; the same input always gives the same result, and
\* applying it twice gives what applying it once gives.
C14_SanitizeScopeReplacesAll ==
    /\ Len(sanitized) >= 1 =>
          LET out == sanitized[1]
          IN  /\ Len(out) = Len(scope)
              /\ \A i \in 1..Len(out) : out[i] \notin {"-", "."}
              /\ \A i \in 1..Len(scope) :
                    out[i] = IF scope[i] = "-" \/ scope[i] = "." THEN "_"
                             ELSE scope[i]
              /\ out = sanitizeScope(scope)
    /\ Len(sanitized) >= 2 => sanitized[2] = sanitized[1]

\* A scope with a '-' after a '.' and a letter was sanitized twice.
C14_Witness ==
    /\ scope = <<".", "a", "-">>
    /\ Len(sanitized) = 2
    /\ sanitized[2] = <<"_", "a", "_">>

\* C15: when the host is unavailable (the context is not recognized as the
\* host, or window.mmrl is undefined) a version/build-info getter makes no
\* host call and returns its sentinel: versionCode and rootVersionCode the
\* number -1, versionName, applicationId, buildType, platform and
\* rootVersionName a string, isDevVersion and isGooglePlayBuild false; when
\* the host is available each getter returns the host's value.
C15_VersionSentinels ==
    lastCall.cls = "VersionInterface" =>
        IF ~accEnv.userAgentIsHost \/ ~accEnv.present
        THEN /\ lastCall.out.hostCalls = <<>>
             /\ ~lastCall.out.threw
             /\ lastCall.method \in {"versionCode", "rootVersionCode"} =>
                   lastCall.out.ret = MinusOne
             /\ lastCall.method \in
                    {"versionName", "applicationId", "buildType", "platform",
                     "rootVersionName"} =>
                   TypeOf(lastCall.out.ret) = "string"
             /\ lastCall.method \in {"isDevVersion", "isGooglePlayBuild"} =>
                   lastCall.out.ret = False
        ELSE ~lastCall.ans.threw => lastCall.out.ret = lastCall.ans.value

\* C16: hasAccessToAdvancedKernelSuAPI returns true only if access to the
\* advanced kernel SU API is available (the host says so), otherwise
\* false; when the context is not recognized as the host it returns false,
\* as hasAccessToFileSystem does.
C16_NoAccessOutsideHost ==
    (/\ lastCall.cls = "MMRLInterface"
     /\ lastCall.method \in {"hasAccessToFileSystem",
                             "hasAccessToAdvancedKernelSuAPI"}
     /\ ~lastCall.out.threw)
        => /\ ~accEnv.userAgentIsHost => lastCall.out.ret = False
           /\ lastCall.out.ret = True =>
                 (/\ accEnv.userAgentIsHost
                  /\ ~lastCall.ans.threw
                  /\ lastCall.ans.value = True)

\* The arguments C17 expects the host to receive: the caller's, with
\* bytes = false, delimiter = ",", recursive = false and total = false
\* standing in for an optional argument that was not given.
C17_ExpectedArgs(m, args) ==
    LET given(i) == Len(args) >= i /\ args[i] # Undefined
    IN  CASE m \in {"read", "size", "stat"} ->
                <<args[1], IF given(2) THEN args[2] ELSE False>>
          [] m = "list" -> <<args[1], IF given(2) THEN args[2] ELSE <<",">>>>
          [] OTHER -> args

\* C17: read, write, readAsBase64, list, size, stat, delete and exists are
\* not version gated: on a recognized host with the host object there,
\* each call forwards exactly one call to the host object, with the same
\* arguments and the defaults for those left out, at every host version
\* code, also below 33162.
C17_BasicOperationsUngated ==
    (/\ lastCall.cls = "FileSystem"
     /\ lastCall.method \in {"read", "write", "readAsBase64", "list", "size",
                             "stat", "delete", "exists"}
     /\ accEnv.userAgentIsHost
     /\ accEnv.present)
        => /\ lastCall.out.hostCalls = <<lastCall.method>>
           /\ lastCall.out.hostArgs =
                 <<C17_ExpectedArgs(lastCall.method, lastCall.args)>>
           /\ lastCall.out.warns = 0
           /\ lastCall.out.threw = lastCall.ans.threw
           /\ (~lastCall.ans.threw /\ lastCall.method # "write") =>
                 lastCall.out.ret = lastCall.ans.value

\* list(path) was forwarded as list(path, ",") on a host of version 33044.
C17_Witness ==
    /\ lastCall.cls = "FileSystem"
    /\ lastCall.method = "list"
    /\ lastCall.args = <<PathP>>
    /\ accEnv.userAgentIsHost /\ accEnv.present
    /\ accEnv.versionCode = 33044
    /\ lastCall.out.hostCalls = <<"list">>
    /\ lastCall.out.hostArgs = <<(<<PathP, <<",">>>>)>>


\* ========================================================================
\* Further claims about SuFile.fetch (checked under SpecFetch)
\* ========================================================================

\* C18: when the signal passed to fetch is already aborted and the file
\* opens, the promise is never resolved with a Response and, once fetch
\* has run, is rejected with an AbortError and the opened handle has been
\* closed; no abort listener is ever registered and no readChunk call is
\* ever made on the handle.
C18_PreAbortedFetchRejects ==
    (signal = "aborted" /\ openOutcome = "ok") =>
        [](/\ promise \in {"none", "rejectedAbort"}
           /\ promise = "rejectedAbort" => closeCalls = 1
           /\ ~listener
           /\ readChunkCalls = 0
           /\ stream = "none")

\* fetch has run with a signal that was aborted beforehand: no stream was
\* made, the handle was closed once and the promise rejected.
C18_Witness ==
    /\ signal = "aborted"
    /\ openOutcome = "ok"
    /\ lastNew.site = "fetch"
    /\ stream = "none"
    /\ promise = "rejectedAbort"
    /\ closeCalls = 1
    /\ Len(fileBytes) > 0

\* The stream has ended through cleanup: end of data, pull error or cancel.
C19_CleanedUp == events \cap {"eof", "error", "cancel"} # {}

\* C19: once the stream has ended through cleanup the abort listener is
\* removed, so an abort fired afterwards makes no call on the handle and
\* changes nothing else; conversely, after the abort handler has run on a
\* stream that is still open, the listener is still registered and the
\* later cleanup calls close on the handle that is already closed.
C19_ListenerRemovedByCleanupOnly ==
    [][/\ C19_CleanedUp' => ~listener'
       /\ (C19_CleanedUp /\ signal = "idle" /\ signal' = "aborted") =>
             UNCHANGED <<listener, handlePos, closeCalls, readChunkCalls,
                         stream, queue, enqueued, promise, events>>
       /\ ("abort" \in events' /\ stream' = "readable") => listener'
       /\ ("abort" \in events /\ stream = "readable" /\ stream' # "readable") =>
             (closeCalls >= 1 /\ closeCalls' = closeCalls + 1)]_vars

\* The signal fired after the stream had delivered the file and ended:
\* the handle was closed once, by cleanup, and the abort did nothing.
C19_Witness ==
    /\ signal = "aborted"
    /\ events = {"eof"}
    /\ Len(enqueued) >= 1
    /\ closeCalls = 1
    /\ ~listener
    /\ promise = "resolved"


\* ========================================================================
\* Claims about two Config instances of one scope (checked under
\* SpecTwoConfigs)
\* ========================================================================

\* What get(key, def) returns on each instance, for every key and default.
C20_Gets(doc) ==
    [key \in KeyStrings |-> [d \in {1, 2} |-> lodashGet(doc, key, Str(d))]]

\* The document in config.json.
C20_FileDoc(text) == JSONParseDoc(text).value

\* A set on one instance leaves every get on the other as it was, and the
\* file after a set is the serialized document of the instance that set.
C20_SetsAreLocal ==
    /\ (lastSetter' = "this" /\ setCount' = setCount + 1
            /\ otherCfg.phase = "ready")
          => C20_Gets(otherCfg'.config) = C20_Gets(otherCfg.config)
    /\ (lastSetter' = "other" /\ setCount' = setCount + 1)
          => C20_Gets(config') = C20_Gets(config)
    /\ lastSetter' = "this" => diskFile' = JSONStringify(config')
    /\ lastSetter' = "other" => diskFile' = JSONStringify(otherCfg'.config)

\* Path p was set to a value through the first instance while the second
\* existed, the value still stands there, and the second instance has
\* just set an unrelated key.
C20_SetThenOtherSet(p) ==
    /\ cfgTrace'.op = "setOther"
    /\ lastSet'[p].valid
    /\ lastSet'[p].beside
    /\ lastSet'[p].value # Undef
    /\ ~Related(p, toPath(cfgTrace'.key))

\* C20 as stated: with two Config instances of one scope, a set on one is
\* not visible to get on the other, the file after any set is the document
\* of the instance that set last, and a key set through the first instance
\* is absent from the file after a later set of a different key through
\* the second.
C20_LostUpdateKeyAbsent ==
    [][/\ C20_SetsAreLocal
       /\ \A p \in Paths :
            C20_SetThenOtherSet(p) =>
                baseGet(C20_FileDoc(diskFile'), p) = Undef]_vars

\* C20 as amended: the same, where after the second instance's set the
\* file holds under the first instance's key what the second instance's
\* document holds there: when the second instance's own sets have not
\* written that key, the value in the file it loaded, and nothing when
\* that file had none.
C20_LostUpdate ==
    [][/\ C20_SetsAreLocal
       /\ \A p \in Paths :
            C20_SetThenOtherSet(p) =>
                /\ (p \notin otherCfg'.touched) =>
                      baseGet(C20_FileDoc(diskFile'), p) =
                        baseGet(otherCfg'.loaded, p)
                /\ (p \notin otherCfg'.touched
                        /\ baseGet(otherCfg'.loaded, p) = Undef) =>
                      baseGet(C20_FileDoc(diskFile'), p) = Undef]_vars

\* Key a was set to 1 through the first instance, then key b through the
\* second: the first instance still holds a = 1 and the file has no a.
C20_Witness ==
    /\ cfgTrace.op = "setOther"
    /\ toPath(cfgTrace.key) = <<"b">>
    /\ lastSet[<<"a">>].valid
    /\ lastSet[<<"a">>].beside
    /\ baseGet(config, <<"a">>) = Num(1)
    /\ baseGet(C20_FileDoc(diskFile), <<"a">>) = Undef
    /\ baseGet(C20_FileDoc(diskFile), <<"b">>) # Undef
    /\ lastSetter = "other"


\* ========================================================================
\* Further claims about AccessorScope (checked under SpecScope)
\* ========================================================================

\* C21: parseScope of a string scope returns the global named
\* '$' + sanitizeScope(scope) whenever that global is defined, otherwise
\* the global named '$' + scope, which may be undefined; of a scope that is
\* no string it returns the scope itself and looks up no global.
\* parseFileScope of a string scope looks up '$' +
\* sanitizedModIdWithFile(scope) only and has no fallback.
C21_ScopeLookup ==
    LET arg   == scopeCall.arg
        named == Dollar(sanitizeScope(arg))
        plain == Dollar(arg)
        file  == Dollar(sanitizedModIdWithFile(arg))
    IN  /\ (scopeCall.op = "parseScope" /\ arg # ScopeObject) =>
              scopeCall.ret = IF named \in globals THEN named
                              ELSE IF plain \in globals THEN plain
                              ELSE Undefined
        /\ (scopeCall.op = "parseScope" /\ arg = ScopeObject) =>
              (scopeCall.ret = arg /\ scopeCall.lookups = <<>>)
        /\ (scopeCall.op = "parseFileScope" /\ arg # ScopeObject) =>
              /\ scopeCall.lookups = <<file>>
              /\ scopeCall.ret = IF file \in globals THEN file ELSE Undefined

\* The host defines both $a- and $a_, and parseScope("a-") returned the
\* global under the sanitized name.
C21_Witness ==
    /\ scope = <<"a", "-">>
    /\ {<<"$", "a", "-">>, <<"$", "a", "_">>} \subseteq globals
    /\ scopeCall.op = "parseScope"
    /\ scopeCall.arg = scope
    /\ scopeCall.ret = <<"$", "a", "_">>

\* The part of a sanitized scope the claim lets the name depend on: its
\* first two characters, or all of it when it is shorter.
C22_Prefix(s) ==
    LET z == sanitizeScope(s)
    IN  SubSeq(z, 1, IF Len(z) >= 2 THEN 2 ELSE Len(z))

\* Every scope string within the bound.
C22_Scopes == SeqsUpTo(ScopeChars, MaxScopeLen)

\* The scopes that share a given part.
C22_SharingPrefix ==
    [p \in {C22_Prefix(t) : t \in C22_Scopes} |->
        {t \in C22_Scopes : C22_Prefix(t) = p}]

\* upper(s[0]) + s[1] + "File", upper(s[0]) + "File" or "File".
C22_Name(s) ==
    LET z == sanitizeScope(s)
    IN  IF Len(z) >= 2 THEN <<toUpperCase(z[1]), z[2], "F", "i", "l", "e">>
        ELSE IF Len(z) = 1 THEN <<toUpperCase(z[1]), "F", "i", "l", "e">>
        ELSE <<"F", "i", "l", "e">>

\* C22: a file system built for a string scope is bound to the global
\* named '$' + upper(s[0]) + s[1] + "File" (upper(s[0]) + "File" for one
\* character, "File" for none), s being the sanitized scope; and every other
\* scope whose sanitized form has the same first two characters is bound to
\* the same global, whatever follows them.
C22_FileNameFromTwoCharacters ==
    (scopeCall.op = "new FileSystem" /\ scopeCall.arg # ScopeObject) =>
        /\ scopeCall.lookups = <<Dollar(C22_Name(scopeCall.arg))>>
        /\ \A t \in C22_SharingPrefix[C22_Prefix(scopeCall.arg)] :
              LET other == parseFileScope(globals, t)
              IN  /\ other.lookups = scopeCall.lookups
                  /\ other.ret = scopeCall.ret

\* The file system of scope "a-a" is bound to the host's $A_File, and so
\* would those of "a." and "a_A" be.
C22_Witness ==
    /\ scope = <<"a", "-", "a">>
    /\ scopeCall.op = "new FileSystem"
    /\ scopeCall.arg = scope
    /\ scopeCall.ret = <<"$", "A", "_", "F", "i", "l", "e">>
    /\ parseFileScope(globals, <<"a", ".">>).ret = scopeCall.ret
    /\ parseFileScope(globals, <<"a", "_", "A">>).ret = scopeCall.ret



\* ========================================================================
\* Claims about NativeProperty (checked under SpecProperty)
\* ========================================================================

\* The context is the host and the version requirement, if there is one,
\* is met.
C23_HostAndVersionMet ==
    /\ propEnv.userAgentIsHost
    /\ propOptions.requireVersion.given =>
          /\ propEnv.present
          /\ propEnv.versionCode >= propOptions.requireVersion.n

\* The context is not the host, or window.mmrl is missing, or its version
\* code is below requireVersion.
C23_Refused ==
    \/ ~propEnv.userAgentIsHost
    \/ ~propEnv.present
    \/ /\ propOptions.requireVersion.given
       /\ propEnv.versionCode < propOptions.requireVersion.n

\* The context is not the host, or a version is required and window.mmrl is
\* missing or its version code is below it.
C23_RefusedWhereRequired ==
    \/ ~propEnv.userAgentIsHost
    \/ /\ propOptions.requireVersion.given
       /\ \/ ~propEnv.present
          \/ propEnv.versionCode < propOptions.requireVersion.n

\* C23 as stated: in the host with the version requirement met, a get
\* that follows a set of v returns v; outside the host, or with window.mmrl
\* missing or too old, a get returns the configured default and a set
\* leaves the stored value as it was.
C23_ValueOrDefault ==
    /\ (C23_HostAndVersionMet /\ propCall.op = "get"
            /\ propCall.prior.op = "set") =>
          propCall.ret = propCall.prior.arg
    /\ (C23_Refused /\ propCall.op = "get") =>
          propCall.ret = propOptions.default
    /\ (C23_Refused /\ propCall.op = "set") =>
          storedValue[ValueCell(propCall.on)] = propCall.held

\* C23, amended: in the host with the version requirement met, a get that
\* follows a set of v returns v; outside the host, or where a version is
\* required and window.mmrl is missing or reports a version code below it,
\* a get returns the configured default and a set leaves the stored value
\* as it was. A property with no version requirement never looks at
\* window.mmrl.
C23_ValueOrDefaultWhereRequired ==
    /\ (C23_HostAndVersionMet /\ propCall.op = "get"
            /\ propCall.prior.op = "set") =>
          propCall.ret = propCall.prior.arg
    /\ (C23_RefusedWhereRequired /\ propCall.op = "get") =>
          propCall.ret = propOptions.default
    /\ (C23_RefusedWhereRequired /\ propCall.op = "set") =>
          storedValue[ValueCell(propCall.on)] = propCall.held

\* In the host, with a version required and window.mmrl missing, 7 was
\* assigned and the get after it returned the default 0.
C23_Witness ==
    /\ propEnv.userAgentIsHost
    /\ propOptions.requireVersion.given
    /\ ~propEnv.present
    /\ propOptions.default = Zero
    /\ propCall.op = "get"
    /\ propCall.prior.op = "set"
    /\ propCall.prior.arg = Seven
    /\ propCall.ret = Zero

\* The host is there and the version requirement, if any, is met.
C24_HostPresentVersionMet ==
    /\ propEnv.userAgentIsHost
    /\ propEnv.present
    /\ propOptions.requireVersion.given =>
          propEnv.versionCode >= propOptions.requireVersion.n

\* C24: the value is held once for the decorated property: with the host
\* present and the version met, a get through one instance that follows a
\* set of v through another instance returns v.
C24_SharedAcrossInstances ==
    (/\ C24_HostPresentVersionMet
     /\ propCall.op = "get"
     /\ propCall.prior.op = "set"
     /\ propCall.prior.on # propCall.on) =>
        propCall.ret = propCall.prior.arg

\* Instance A assigned 7 and the get through instance B returned 7.
C24_Witness ==
    /\ C24_HostPresentVersionMet
    /\ propCall.op = "get"
    /\ propCall.on = "B"
    /\ propCall.prior.op = "set"
    /\ propCall.prior.on = "A"
    /\ propCall.prior.arg = Seven
    /\ propCall.ret = Seven


====
